---- MODULE Spec2Model ----
(***************************************************************************)
(* Model of infra/app.py, the CDK entry point of zeroproof-travel-poc.     *)
(*                                                                         *)
(* The script is four top-level statements executed in order:              *)
(*     env = cdk.Environment(account=..., region=...)      (lines 6-9)     *)
(*     app = cdk.App()                                     (line 11)       *)
(*     AgentBMCPSStack(app, "AgentBMCPSStack", env=env)    (lines 15-17)   *)
(*     app.synth()                                         (line 19)       *)
(* No statement is wrapped in try/except, so an exception raised by any    *)
(* call ends the process.  The process may be started again (a second run  *)
(* of the script): every run starts from fresh module state.               *)
(***************************************************************************)
EXTENDS Naturals, Sequences, FiniteSets

VARIABLES
    cfg,        \* the account/region literals written in the script
    osenv,      \* process environment: CDK_DEFAULT_ACCOUNT / CDK_DEFAULT_REGION
    backend,    \* behaviour of the external collaborators for this target
    run,        \* number of the current run of the script
    pc,         \* next statement of the script, or a terminal state
    env,        \* module global `env`   (None until line 6 has run)
    app,        \* module global `app`   (None until line 11 has run)
    stack,      \* the object built at line 15 (the script keeps no name for it)
    artifact,   \* what app.synth() rendered
    log,        \* calls made by this run, in order
    prev        \* terminal state of the previous run

vars == <<cfg, osenv, backend, run, pc, env, app, stack, artifact, log, prev>>

----------------------------------------------------------------------------
\* Values

None == <<>>
Some(x) == <<x>>

\* os.getenv() of a variable that is not set
MISSING == "<unset>"

\* Faulty variant: the account identifier loses its last digit.
ACCOUNT_TRUNCATED == "94033362747"

\* line 7
ACCOUNT == "940333627479"

\* line 8
REGION == "us-east-1"

\* line 15
STACK_NAME == "AgentBMCPSStack"

\* Number of times the script is started.
MaxRuns == 2

Accounts == {MISSING, "", ACCOUNT, "111111111111"}
Regions == {MISSING, "", REGION, "eu-west-1"}

OsEnvs == [CDK_DEFAULT_ACCOUNT : Accounts, CDK_DEFAULT_REGION : Regions]

Configs == [account : Accounts, region : Regions]

\* What the external collaborators do for this target: nothing goes wrong,
\* the stack constructor raises, or synthesis raises.
Backends == {"ok", "stackFails", "synthFails"}

Terminal == {"done", "failed"}

\* The statements in program order.
Order == <<"Environment", "App", "Stack", "synth">>

----------------------------------------------------------------------------
\* External collaborators

\* cdk.Environment(account=a, region=r): a plain value holding the two fields.
Environment(a, r) == [account |-> a, region |-> r]

\* cdk.App(): a root container that owns no deployment unit yet.
App == [units |-> <<>>]

\* A descriptor usable for a real deployment: both fields present and non-empty.
Valid(e) == e.account \notin {MISSING, ""} /\ e.region \notin {MISSING, ""}

UnitNames(a) == {a.units[i].name : i \in 1..Len(a.units)}

\* AgentBMCPSStack(scope, id, env=e): rejects an invalid descriptor or a name
\* already used in the scope; otherwise the new unit records id and e and is
\* added to the units the scope owns.
AgentBMCPSStack(scope, id, e) ==
    IF backend = "stackFails" \/ ~Valid(e) \/ id \in UnitNames(scope)
    THEN [ok |-> FALSE, unit |-> [name |-> id, env |-> e], scope |-> scope]
    ELSE [ok |-> TRUE,
          unit |-> [name |-> id, env |-> e],
          scope |-> [scope EXCEPT !.units = Append(@, [name |-> id, env |-> e])]]

\* app.synth(): renders every owned unit, in order.
Render(a) ==
    [i \in 1..Len(a.units) |->
        [name |-> a.units[i].name,
         account |-> a.units[i].env.account,
         region |-> a.units[i].env.region]]

----------------------------------------------------------------------------
\* Helpers over the call log

InLog(s) == \E i \in 1..Len(log) : log[i] = s

Count(s) == Cardinality({i \in 1..Len(log) : log[i] = s})

IsPrefix(s, t) == Len(s) <= Len(t) /\ \A i \in 1..Len(s) : s[i] = t[i]

Rank(p) ==
    CASE p = "env" -> 0
      [] p = "app" -> 1
      [] p = "stack" -> 2
      [] p = "synth" -> 3
      [] OTHER -> 4

Snapshot ==
    [pc |-> pc, env |-> env, app |-> app, stack |-> stack,
     artifact |-> artifact, log |-> log, osenv |-> osenv]

----------------------------------------------------------------------------
\* Initial states

Fresh ==
    /\ pc = "env"
    /\ env = None
    /\ app = None
    /\ stack = None
    /\ artifact = None
    /\ log = <<>>

Init ==
    /\ cfg = [account |-> ACCOUNT, region |-> REGION]
    /\ osenv \in OsEnvs
    /\ backend \in Backends
    /\ run = 1
    /\ prev = None
    /\ Fresh

\* The script with any pair of literals in place of the two at lines 7-8.
InitCfg ==
    /\ cfg \in Configs
    /\ osenv \in OsEnvs
    /\ backend \in Backends
    /\ run = 1
    /\ prev = None
    /\ Fresh

----------------------------------------------------------------------------
\* Statements

\* Faulty variant: the descriptor is validated when it is built.
ConstructEnvValidating ==
    /\ pc = "env"
    /\ log' = Append(log, "Environment")
    /\ IF Valid(cfg)
       THEN env' = Some(Environment(cfg.account, cfg.region)) /\ pc' = "app"
       ELSE env' = env /\ pc' = "failed"
    /\ UNCHANGED <<cfg, osenv, backend, run, app, stack, artifact, prev>>

\* lines 6-9
ConstructEnv ==
    /\ pc = "env"
    /\ env' = Some(Environment(cfg.account, cfg.region))
    /\ log' = Append(log, "Environment")
    /\ pc' = "app"
    /\ UNCHANGED <<cfg, osenv, backend, run, app, stack, artifact, prev>>

\* Faulty variant: the statement that builds the stack is missing.
ConstructAppSkipsStack ==
    /\ pc = "app"
    /\ app' = Some(App)
    /\ log' = Append(log, "App")
    /\ pc' = "synth"
    /\ UNCHANGED <<cfg, osenv, backend, run, env, stack, artifact, prev>>

\* Faulty variant: `env` is bound again, from the process environment.
ConstructAppRebindsEnv ==
    /\ pc = "app"
    /\ app' = Some(App)
    /\ env' = Some(Environment(osenv.CDK_DEFAULT_ACCOUNT, osenv.CDK_DEFAULT_REGION))
    /\ log' = Append(log, "App")
    /\ pc' = "stack"
    /\ UNCHANGED <<cfg, osenv, backend, run, stack, artifact, prev>>

\* line 11
ConstructApp ==
    /\ pc = "app"
    /\ app' = Some(App)
    /\ log' = Append(log, "App")
    /\ pc' = "stack"
    /\ UNCHANGED <<cfg, osenv, backend, run, env, stack, artifact, prev>>

\* The stack statement with the descriptor e and the name id.
StackStatement(id, e, onError) ==
    /\ pc = "stack"
    /\ log' = Append(log, "Stack")
    /\ LET r == AgentBMCPSStack(app[1], id, e)
       IN IF r.ok
          THEN /\ app' = Some(r.scope)
               /\ stack' = Some(r.unit)
               /\ pc' = "synth"
          ELSE /\ pc' = onError
               /\ UNCHANGED <<app, stack>>
    /\ UNCHANGED <<cfg, osenv, backend, run, env, artifact, prev>>

\* Faulty variant: the commented-out alternative of lines 13-14 is the one in use.
ConstructStackGetenv ==
    StackStatement(STACK_NAME,
                   Environment(osenv.CDK_DEFAULT_ACCOUNT, osenv.CDK_DEFAULT_REGION),
                   "failed")

\* Faulty variant: env= is passed a descriptor whose region is the default one.
ConstructStackDefaultRegion ==
    StackStatement(STACK_NAME, Environment(env[1].account, REGION), "failed")

\* Faulty variant: the constructor's exception is caught and the script goes on.
ConstructStackSwallows ==
    StackStatement(STACK_NAME, env[1], "synth")

\* Faulty variant: the unit's name is made unique per run.
ConstructStackRunName ==
    StackStatement(IF run = 1 THEN STACK_NAME ELSE "AgentBMCPSStack-2", env[1], "failed")

\* lines 15-17
ConstructStack ==
    StackStatement(STACK_NAME, env[1], "failed")

\* Faulty variant: synth is called twice.
SynthTwice ==
    /\ pc = "synth"
    /\ log' = Append(Append(log, "synth"), "synth")
    /\ IF backend = "synthFails"
       THEN pc' = "failed" /\ artifact' = artifact
       ELSE pc' = "done" /\ artifact' = Some(Render(app[1]))
    /\ UNCHANGED <<cfg, osenv, backend, run, env, app, stack, prev>>

\* Faulty variant: a failed synthesis is retried from the stack statement.
SynthRetries ==
    /\ pc = "synth"
    /\ log' = Append(log, "synth")
    /\ IF backend = "synthFails"
       THEN pc' = "stack" /\ artifact' = artifact
       ELSE pc' = "done" /\ artifact' = Some(Render(app[1]))
    /\ UNCHANGED <<cfg, osenv, backend, run, env, app, stack, prev>>

\* line 19
Synth ==
    /\ pc = "synth"
    /\ log' = Append(log, "synth")
    /\ IF backend = "synthFails"
       THEN pc' = "failed" /\ artifact' = artifact
       ELSE pc' = "done" /\ artifact' = Some(Render(app[1]))
    /\ UNCHANGED <<cfg, osenv, backend, run, env, app, stack, prev>>

\* The script is started again: a new process, whose environment variables
\* may differ, against the same target.
StartRun ==
    /\ pc \in Terminal
    /\ run < MaxRuns
    /\ run' = run + 1
    /\ prev' = Some(Snapshot)
    /\ osenv' \in OsEnvs
    /\ pc' = "env"
    /\ env' = None
    /\ app' = None
    /\ stack' = None
    /\ artifact' = None
    /\ log' = <<>>
    /\ UNCHANGED <<cfg, backend>>

Step == ConstructEnv \/ ConstructApp \/ ConstructStack \/ Synth

Next == Step \/ StartRun

Spec == Init /\ [][Next]_vars

SpecCfg == InitCfg /\ [][Next]_vars

\* The interpreter executes the next statement of a running script.
FairSpec == Init /\ [][Next]_vars /\ WF_vars(Step)

FairSpecCfg == InitCfg /\ [][Next]_vars /\ WF_vars(Step)

----------------------------------------------------------------------------
\* Properties

ExactlyOnce ==
    /\ \A i \in 1..Len(Order) : Count(Order[i]) <= 1
    /\ (pc = "done" =>
          /\ \A i \in 1..Len(Order) : Count(Order[i]) = 1
          /\ env # None /\ app # None /\ stack # None
          /\ Len(app[1].units) = 1)
    /\ (InLog("synth") => app # None /\ Len(app[1].units) >= 1)

ExactlyOnceWitness ==
    pc = "done" /\ Count("synth") = 1 /\ Len(app[1].units) = 1

\* C3: the unit built by the script records the account and region the
\* descriptor was built from, unchanged, and still does when finalize is called.
EnvPassedThrough ==
    /\ (stack # None =>
          /\ stack[1].env = [account |-> cfg.account, region |-> cfg.region]
          /\ app[1].units = <<stack[1]>>)
    /\ (InLog("synth") =>
          /\ stack # None
          /\ stack[1].env.account = cfg.account
          /\ stack[1].env.region = cfg.region)

EnvPassedThroughWitness ==
    /\ pc = "done"
    /\ cfg = [account |-> "111111111111", region |-> "eu-west-1"]
    /\ stack[1].env = [account |-> "111111111111", region |-> "eu-west-1"]

\* C4: with the literals of the script, a run that ends in success leaves the
\* ApplicationContext owning one unit named "AgentBMCPSStack" whose environment
\* is account "940333627479", region "us-east-1", and finalize was called once.
Scenario1 ==
    pc = "done" =>
        /\ app = Some([units |-> <<[name |-> "AgentBMCPSStack",
                                    env |-> [account |-> "940333627479",
                                             region |-> "us-east-1"]]>>])
        /\ Count("synth") = 1

Scenario1Witness ==
    /\ pc = "done"
    /\ run = 1
    /\ app[1].units[1].name = "AgentBMCPSStack"
    /\ artifact = Some(<<[name |-> "AgentBMCPSStack", account |-> "940333627479",
                          region |-> "us-east-1"]>>)

\* The safety part of C5, as a state predicate.
Scenario2Safe ==
    ~Valid(cfg) =>
        /\ stack = None
        /\ ~InLog("synth")
        /\ pc \notin {"synth", "done"}
        /\ (InLog("Stack") => pc = "failed")
        /\ (pc = "failed" => log[Len(log)] \in {"Environment", "Stack"})

\* C5: with an empty or missing account or region no unit is built, finalize is
\* never called, and every run ends in failure, at the descriptor or the unit,
\* with no statement run after the failing one.
Scenario2 ==
    /\ []Scenario2Safe
    /\ (~Valid(cfg) /\ pc \notin Terminal) ~> (pc = "failed")

Scenario2Witness ==
    /\ cfg.account = ""
    /\ backend = "ok"
    /\ pc = "failed"
    /\ log = <<"Environment", "App", "Stack">>

\* C6: building the descriptor never fails and validates nothing: whatever the
\* two strings, once the statement has run the descriptor holds exactly those
\* two values, and a failed run failed at a later call.
DescriptorNeverFails ==
    /\ (InLog("Environment") =>
          env = Some([account |-> cfg.account, region |-> cfg.region]))
    /\ (pc = "failed" => Len(log) >= 2 /\ log[Len(log)] \in {"Stack", "synth"})

DescriptorNeverFailsWitness ==
    /\ cfg = [account |-> "", region |-> MISSING]
    /\ pc = "app"
    /\ env = Some([account |-> "", region |-> MISSING])

\* C7: a second run with the same literals against the same target ends in the
\* state the first run ended in and renders the same output.
Idempotent ==
    (run >= 2 /\ pc \in Terminal) =>
        /\ pc = prev[1].pc
        /\ app = prev[1].app
        /\ artifact = prev[1].artifact

IdempotentWitness ==
    /\ run = 2
    /\ pc = "done"
    /\ prev[1].pc = "done"
    /\ artifact # None
    /\ artifact = prev[1].artifact

\* C8: CDK_DEFAULT_ACCOUNT and CDK_DEFAULT_REGION are not used: whatever their
\* values the descriptor and the unit hold the literals, and two runs that
\* differ in them build the same descriptor and unit by the same calls.
GetenvUnused ==
    /\ (env # None => env[1] = [account |-> ACCOUNT, region |-> REGION])
    /\ (stack # None =>
          stack[1] = [name |-> STACK_NAME, env |-> [account |-> ACCOUNT, region |-> REGION]])
    /\ ((run >= 2 /\ pc \in Terminal) =>
          /\ env = prev[1].env
          /\ stack = prev[1].stack
          /\ log = prev[1].log)

GetenvUnusedWitness ==
    /\ run = 2
    /\ pc = "done"
    /\ osenv = [CDK_DEFAULT_ACCOUNT |-> "111111111111", CDK_DEFAULT_REGION |-> "eu-west-1"]
    /\ prev[1].osenv = [CDK_DEFAULT_ACCOUNT |-> MISSING, CDK_DEFAULT_REGION |-> MISSING]
    /\ stack[1].env.account = ACCOUNT

\* finalize is the statement about to run
AtFinalize == pc = "synth"

\* C9 (as stated): within a run, every statement other than finalize leaves the
\* ApplicationContext, the EnvironmentDescriptor and the DeploymentUnit, once
\* built, unchanged.
NoMutationAfterConstruction ==
    [][(run' = run /\ ~AtFinalize) =>
          /\ (env # None => env' = env)
          /\ (app # None => app' = app)
          /\ (stack # None => stack' = stack)]_vars

\* C9 (amended): within a run, every statement other than finalize leaves the
\* EnvironmentDescriptor and the DeploymentUnit, once built, unchanged, and
\* changes the ApplicationContext only when the DeploymentUnit is built, by
\* adding that unit to the units it owns.
NoMutationButRegistration ==
    [][(run' = run /\ ~AtFinalize) =>
          /\ (env # None => env' = env)
          /\ (stack # None => stack' = stack)
          /\ (app # None =>
                \/ app' = app
                \/ /\ pc = "stack"
                   /\ stack = None /\ stack' # None
                   /\ app' = Some([units |-> Append(app[1].units, stack'[1])]))]_vars

NoMutationButRegistrationWitness ==
    /\ pc = "synth"
    /\ env = Some(Environment(ACCOUNT, REGION))
    /\ app[1].units = <<stack[1]>>

\* C10: every run ends, in success or in failure; success is entered only by
\* finalize completing and failure only by a call that raised; no statement is
\* run twice and none runs after the run has ended.
Terminates ==
    /\ (pc \notin Terminal) ~> (pc \in Terminal)
    /\ [](pc = "done" => log[Len(log)] = "synth" /\ artifact # None)
    /\ [](pc = "failed" => artifact = None /\ log[Len(log)] \in {"Stack", "synth"})
    /\ [][(pc' = "done" /\ pc # "done") => pc = "synth"]_vars
    /\ [][run' = run => Rank(pc') > Rank(pc)]_vars
    /\ [][(pc \in Terminal) => (run' = run + 1 /\ pc' = "env")]_vars

TerminatesWitness ==
    /\ run = 1
    /\ pc = "failed"
    /\ backend = "synthFails"
    /\ log = Order

====
